---- MODULE Spec2Model ----
(***************************************************************************)
(* Model of src/app.py (Fatura Mailer): the SEND handler's row loop over   *)
(* the uploaded invoice table, with the helpers it calls                   *)
(* (parse_recipients, build_graph_message, send_mail_graph,                *)
(* choose_template, format_template).                                      *)
(*                                                                         *)
(* Python strings are sequences of one-character strings, so that strip()  *)
(* and lower() are computed and not assumed.  A table cell is a record     *)
(* [t, s, n]: t is the Python type of the value ("absent" when the table   *)
(* has no such column), s its text, n its number.                          *)
(***************************************************************************)
EXTENDS Integers, Sequences, FiniteSets, TLC

VARIABLES
    uploaded,          \* the table as read from the uploaded file (df before SEND)
    templates_file,    \* the template file: [exists, store]
    files,             \* paths for which os.path.isfile is true
    dry_run,           \* the dry-run toggle
    default_template,  \* the radio's template key
    pc,                \* "idle", "loop", "done", "stopped" (st.stop), "crashed" (exception)
    exc,               \* the uncaught exception that ended the script, or "none"
    df,                \* the working table
    snapshot,          \* the rows df.iterrows() yields: the table as the loop began
    idx,               \* position of the row the loop is at
    access_token,      \* "None" or "tok"
    sent_count,
    logs,
    ui,                \* messages shown through st.error / st.markdown / st.success
    outcome,           \* per row: the branch of the loop it left through
    sends,             \* the send_mail_graph calls made, in order
    rendered,          \* positions of the rows format_template was called for
    call               \* a direct call of a helper: its arguments and results

vars == <<uploaded, templates_file, files, dry_run, default_template, pc, exc, df,
          snapshot, idx, access_token, sent_count, logs, ui, outcome, sends, rendered, call>>

-----------------------------------------------------------------------------
(* Bounds of the model *)

MaxRows == 2
MaxRS == 4
MaxCc == 3

-----------------------------------------------------------------------------
(* Python values *)

S(str) == [t |-> "str", s |-> str, n |-> 0]
N(i) == [t |-> "int", s |-> <<>>, n |-> i]
B(b) == [t |-> "bool", s |-> <<>>, n |-> IF b THEN 1 ELSE 0]
NaN == [t |-> "nan", s |-> <<>>, n |-> 0]
None == [t |-> "none", s |-> <<>>, n |-> 0]
Absent == [t |-> "absent", s |-> <<>>, n |-> 0]

UpperCase == <<"A","B","C","D","E","F","G","H","I","J","K","L","M",
               "N","O","P","Q","R","S","T","U","V","W","X","Y","Z">>
LowerCase == <<"a","b","c","d","e","f","g","h","i","j","k","l","m",
               "n","o","p","q","r","s","t","u","v","w","x","y","z">>
Digits == <<"0","1","2","3","4","5","6","7","8","9">>

IsSpace(c) == c \in {" ", "\t", "\n"}

\* str.lower(), one character
LowerChar(c) ==
    IF \E i \in 1..26 : UpperCase[i] = c
    THEN LowerCase[CHOOSE i \in 1..26 : UpperCase[i] = c]
    ELSE c

\* str.lower()
Lower(str) == [i \in 1..Len(str) |-> LowerChar(str[i])]

RECURSIVE LStrip(_)
LStrip(str) ==
    IF Len(str) = 0 THEN str
    ELSE IF IsSpace(Head(str)) THEN LStrip(Tail(str)) ELSE str

RECURSIVE RStrip(_)
RStrip(str) ==
    IF Len(str) = 0 THEN str
    ELSE IF IsSpace(str[Len(str)]) THEN RStrip(SubSeq(str, 1, Len(str) - 1)) ELSE str

\* str.strip()
Strip(str) == RStrip(LStrip(str))

\* str.replace(a, b) for one-character a and b
Replace(str, a, b) == [i \in 1..Len(str) |-> IF str[i] = a THEN b ELSE str[i]]

\* str.split(sep) for a one-character sep: always at least one piece
RECURSIVE SplitFrom(_, _, _)
SplitFrom(str, sep, piece) ==
    IF Len(str) = 0 THEN <<piece>>
    ELSE IF Head(str) = sep THEN <<piece>> \o SplitFrom(Tail(str), sep, <<>>)
    ELSE SplitFrom(Tail(str), sep, Append(piece, Head(str)))

Split(str, sep) == SplitFrom(str, sep, <<>>)

\* str(value) for the values a cell holds
PyStr(v) ==
    CASE v.t = "str" -> v.s
      [] v.t = "nan" -> <<"n","a","n">>
      [] v.t = "none" -> <<"N","o","n","e">>
      [] v.t = "bool" -> IF v.n = 1 THEN <<"T","r","u","e">> ELSE <<"F","a","l","s","e">>
      [] v.t = "int" -> IF v.n \in 0..9 THEN <<Digits[v.n + 1]>>
                        ELSE IF v.n \in 10..99 THEN <<Digits[(v.n \div 10) + 1], Digits[(v.n % 10) + 1]>>
                        ELSE <<"-", Digits[(0 - v.n) + 1]>>
      [] OTHER -> <<>>

\* bool(value): "", 0, False and None are falsy; NaN is a float other than 0.0
Truthy(v) ==
    CASE v.t = "str" -> Len(v.s) > 0
      [] v.t = "int" -> v.n # 0
      [] v.t = "bool" -> v.n = 1
      [] v.t = "none" -> FALSE
      [] OTHER -> TRUE

\* a or b
PyOr(a, b) == IF Truthy(a) THEN a ELSE b

IsDigit(c) == \E i \in 1..10 : Digits[i] = c
DigitVal(c) == (CHOOSE i \in 1..10 : Digits[i] = c) - 1

RECURSIVE DigitsVal(_, _)
DigitsVal(str, acc) ==
    IF Len(str) = 0 THEN acc ELSE DigitsVal(Tail(str), acc * 10 + DigitVal(Head(str)))

\* int(value): [ok, n]; ok = FALSE is ValueError
PyInt(v) ==
    CASE v.t = "int" -> [ok |-> TRUE, n |-> v.n]
      [] v.t = "bool" -> [ok |-> TRUE, n |-> v.n]
      [] v.t = "str" ->
            LET str == Strip(v.s)
                neg == Len(str) > 0 /\ Head(str) = "-"
                ds == IF neg THEN Tail(str) ELSE str
            IN  IF Len(ds) > 0 /\ \A i \in 1..Len(ds) : IsDigit(ds[i])
                THEN [ok |-> TRUE, n |-> IF neg THEN 0 - DigitsVal(ds, 0) ELSE DigitsVal(ds, 0)]
                ELSE [ok |-> FALSE, n |-> 0]
      [] OTHER -> [ok |-> FALSE, n |-> 0]

Min(a, b) == IF a <= b THEN a ELSE b

\* row.get(col, default)
Get(row, col, default) == IF row[col].t = "absent" THEN default ELSE row[col]

First == <<"f","i","r","s","t">>
Second == <<"s","e","c","o","n","d">>
Final == <<"f","i","n","a","l">>
Keys == {First, Second, Final}
NullLike == {<<"n","a","n">>, <<"n","o","n","e">>, <<"n","u","l","l">>}

-----------------------------------------------------------------------------
(* Helpers *)

RECURSIVE DedupRecipients(_, _, _)
DedupRecipients(toks, seen, out) ==
    IF Len(toks) = 0 THEN out
    ELSE LET a == Head(toks)
         IN  IF a \in NullLike THEN DedupRecipients(Tail(toks), seen, out)
             ELSE IF a \notin seen
                  THEN DedupRecipients(Tail(toks), seen \cup {a}, Append(out, [address |-> a]))
                  ELSE DedupRecipients(Tail(toks), seen, out)

\* parse_recipients(value): the recipient entries of a raw cc cell
ParseRecipients(value) ==
    IF value.t = "none" THEN <<>>
    ELSE LET raw == Strip(PyStr(value))
         IN  IF Len(raw) = 0 \/ Lower(raw) \in NullLike THEN <<>>
             ELSE LET pieces == Split(Replace(raw, ";", ","), ",")
                      kept == SelectSeq(pieces, LAMBDA x : Len(Strip(x)) > 0)
                      toks == [i \in 1..Len(kept) |-> Lower(Strip(kept[i]))]
                  IN  DedupRecipients(toks, {}, <<>>)

RECURSIVE CleanCc(_, _, _, _)
CleanCc(cc_list, to_addr, seen, clean_cc) ==
    IF Len(cc_list) = 0 THEN clean_cc
    ELSE LET addr == Lower(Strip(Head(cc_list).address))
         IN  IF addr = to_addr THEN CleanCc(Tail(cc_list), to_addr, seen, clean_cc)
             ELSE IF addr \notin seen
                  THEN CleanCc(Tail(cc_list), to_addr, seen \cup {addr},
                               Append(clean_cc, [address |-> addr]))
                  ELSE CleanCc(Tail(cc_list), to_addr, seen, clean_cc)

\* build_graph_message without line 95: to_addr is used as it was passed
BuildGraphMessageRawTo(to_addr, subject, body_html, attachment_path, cc_list) ==
    [subject |-> subject,
     body |-> [contentType |-> "HTML", content |-> body_html],
     toRecipients |-> <<[address |-> to_addr]>>,
     ccRecipients |-> CleanCc(cc_list, to_addr, {}, <<>>),
     saveToSentItems |-> TRUE,
     attachments |-> IF Len(attachment_path) > 0 /\ attachment_path \in files
                     THEN <<[name |-> attachment_path]>>
                     ELSE <<>>]

\* build_graph_message: the payload; attachments is empty or holds the one file
BuildGraphMessage(to_addr, subject, body_html, attachment_path, cc_list) ==
    LET to == Lower(Strip(to_addr))
    IN  [subject |-> subject,
         body |-> [contentType |-> "HTML", content |-> body_html],
         toRecipients |-> <<[address |-> to]>>,
         ccRecipients |-> CleanCc(cc_list, to, {}, <<>>),
         saveToSentItems |-> TRUE,
         attachments |-> IF Len(attachment_path) > 0 /\ attachment_path \in files
                         THEN <<[name |-> attachment_path]>>
                         ELSE <<>>]

\* what requests.post gives: an HTTP status, or 0 for a transport error or timeout
Responses == {200, 202, 429, 0}

\* send_mail_graph: TRUE when it returns, FALSE when it raises
SendMailGraph(status) == status \in {202, 200}

\* the text of the exception send_mail_graph raises
SendError(status) == IF status = 0 THEN "transport" ELSE "status"

\* choose_template: [ok, key]; ok = FALSE is the ValueError of int()
ChooseTemplate(row, dflt) ==
    LET tc == Lower(Strip(PyStr(PyOr(Get(row, "template_choice", S(<<>>)), S(<<>>)))))
    IN  IF tc \in Keys THEN [ok |-> TRUE, key |-> tc]
        ELSE IF dflt.t = "str" /\ dflt.s \in Keys THEN [ok |-> TRUE, key |-> dflt.s]
        ELSE LET rs == PyInt(PyOr(Get(row, "reminders_sent", N(0)), N(0)))
             IN  IF ~rs.ok THEN [ok |-> FALSE, key |-> <<>>]
                 ELSE IF rs.n <= 0 THEN [ok |-> TRUE, key |-> First]
                 ELSE IF rs.n = 1 THEN [ok |-> TRUE, key |-> Second]
                 ELSE [ok |-> TRUE, key |-> Final]

\* a pattern is a sequence of pieces: text, or a placeholder {k}
Lit(str) == [ph |-> FALSE, s |-> str, k |-> ""]
Ph(k) == [ph |-> TRUE, s |-> <<>>, k |-> k]

\* the keyword arguments format_template passes to str.format
FormatArgs == {"name", "invoice_no", "amount"}

RECURSIVE Substitute(_, _)
Substitute(pattern, row) ==
    IF Len(pattern) = 0 THEN <<>>
    ELSE LET p == Head(pattern)
         IN  (IF p.ph THEN PyStr(Get(row, p.k, S(<<>>))) ELSE p.s)
             \o Substitute(Tail(pattern), row)

\* str.format(name=, invoice_no=, amount=) raises KeyError on any other placeholder
FormatOk(pattern) == \A i \in 1..Len(pattern) : pattern[i].ph => pattern[i].k \in FormatArgs

\* format_template: [ok, subject, body_html]; ok = FALSE is KeyError
FormatTemplate(tpl, row) ==
    IF FormatOk(tpl.subject) /\ FormatOk(tpl.body_html)
    THEN [ok |-> TRUE, subject |-> Substitute(tpl.subject, row),
          body_html |-> Substitute(tpl.body_html, row)]
    ELSE [ok |-> FALSE, subject |-> <<>>, body_html |-> <<>>]

\* datetime.now().date().isoformat(), one value for the whole run
now_str == <<"2","0","2","6","-","1","1","-","0","5">>

\* f"{tkey}_template_sent"
FlagCol(tkey) ==
    CASE tkey = First -> "first_template_sent"
      [] tkey = Second -> "second_template_sent"
      [] tkey = Final -> "final_template_sent"

FlagCols == {"first_template_sent", "second_template_sent", "final_template_sent"}
BookCols == {"last_sent", "reminders_sent", "last_template_sent", "report_note"} \cup FlagCols

\* f"{tkey} template has been sent on {now_str}"
ReportNote(tkey) == tkey \o <<" ","t","e","m","p","l","a","t","e"," ","h","a","s"," ","b","e","e","n"," ","s","e","n","t"," ","o","n"," ">> \o now_str

\* df[col] = value when col is not in df.columns
NewColumn(table, col, value) ==
    [i \in 1..Len(table) |->
        IF table[i][col].t = "absent" THEN [table[i] EXCEPT ![col] = value] ELSE table[i]]

\* df.at[i, col] = value; a column that does not exist yet is added, NaN elsewhere
SetAt(table, i, col, value) ==
    [j \in 1..Len(table) |->
        IF j = i THEN [table[j] EXCEPT ![col] = value]
        ELSE IF table[j][col].t = "absent" THEN [table[j] EXCEPT ![col] = NaN]
        ELSE table[j]]

-----------------------------------------------------------------------------
(* The inputs: uploaded tables, template files, the file system *)

Str1 == <<"x">>
Paid == <<"P","a","i","d">>
OldDate == <<"2","0","2","6","-","1","0","-","0","1">>
PdfThere == <<"i","n","v",".","p","d","f">>
PdfGone == <<"g","o","n","e",".","p","d","f">>

\* one row of the columns the user fills in
InputRow(email, status, template_choice, reminders_sent, invoice_pdf, cc) ==
    [email |-> email, name |-> S(<<"N">>), invoice_no |-> N(7), amount |-> S(<<"9">>),
     invoice_pdf |-> invoice_pdf, status |-> status, template_choice |-> template_choice,
     cc |-> cc, reminders_sent |-> reminders_sent,
     last_sent |-> Absent, last_template_sent |-> Absent, report_note |-> Absent,
     first_template_sent |-> Absent, second_template_sent |-> Absent,
     final_template_sent |-> Absent]

\* a paid invoice
PaidRow == InputRow(S(<<"a">>), S(Paid), S(<<>>), N(2), S(<<>>), S(<<>>))
\* an open invoice with r reminders sent, an attachment on disk and a cc cell that
\* repeats an address and names the primary address
OpenRow(r) == InputRow(S(<<" ","A">>), NaN, NaN, N(r), S(PdfThere),
                       S(<<"b",";","A",","," ","b">>))
\* an open invoice whose reminders_sent, invoice_pdf and cc cells are blank
BlankRow == InputRow(S(<<"b">>), S(<<"o","p","e","n">>), S(<<>>), NaN, NaN, NaN)
\* an open invoice with an explicit template and an attachment path with no file
OverrideRow == InputRow(S(<<"c">>), S(<<>>), S(<<"S","e","c","o","n","d"," ">>), N(1),
                        S(PdfGone), S(<<"c",",","a">>))
\* an open invoice whose reminders_sent cell holds text
TextRow == InputRow(S(<<"d">>), S(<<>>), S(<<"F","I","N","A","L">>), S(Str1),
                    S(<<>>), S(<<>>))

RowKinds == {PaidRow, OpenRow(0), BlankRow, OverrideRow, TextRow}

\* which bookkeeping columns the uploaded table has
\*   "bare": none, not even reminders_sent; "input": reminders_sent only;
\*   "output": all of them, as in a table this program wrote before
Layouts == {"bare", "input", "output"}

WithLayout(row, layout) ==
    CASE layout = "bare" -> [row EXCEPT !.reminders_sent = Absent]
      [] layout = "input" -> row
      [] layout = "output" ->
            [row EXCEPT !.last_sent = S(OldDate), !.last_template_sent = S(First),
                        !.report_note = S(ReportNote(First)),
                        !.first_template_sent = B(TRUE),
                        !.second_template_sent = B(FALSE),
                        !.final_template_sent = B(FALSE)]

Tables ==
    UNION {[1..len -> RowKinds] : len \in 1..MaxRows}

\* tables of open invoices with every reminder count, and one of a paid invoice
ReminderTables ==
    {tb \in UNION {[1..len -> {OpenRow(r) : r \in 0..MaxRS}] : len \in 1..MaxRows} :
        Cardinality({i \in 1..Len(tb) : tb[i] # OpenRow(0)}) <= 1}
    \cup {<<PaidRow>>}

GoodTpl == [subject |-> <<Lit(<<"#">>), Ph("invoice_no")>>,
            body_html |-> <<Lit(<<"H","i"," ">>), Ph("name"), Lit(<<":">>), Ph("amount")>>]
\* a template whose body names a placeholder format_template does not pass
BadTpl == [subject |-> <<Lit(<<"#">>), Ph("invoice_no")>>,
           body_html |-> <<Lit(<<"H","i"," ">>), Ph("company")>>]

StoreFull == [k \in Keys |-> GoodTpl]
StoreNoFinal == [k \in {First, Second} |-> GoodTpl]
StoreBadSecond == [k \in Keys |-> IF k = Second THEN BadTpl ELSE GoodTpl]
Stores == {StoreFull, StoreNoFinal, StoreBadSecond}

TemplateFiles == {[exists |-> TRUE, store |-> st] : st \in Stores}
                 \cup {[exists |-> FALSE, store |-> StoreFull]}

NoCall == [fn |-> "none"]

InitOf(tables) ==
    /\ \E tb \in tables, layout \in Layouts :
          uploaded = [i \in 1..Len(tb) |-> WithLayout(tb[i], layout)]
    /\ templates_file \in TemplateFiles
    /\ files = {PdfThere}
    /\ dry_run \in BOOLEAN
    /\ default_template \in Keys
    /\ pc = "idle"
    /\ exc = "none"
    /\ df = uploaded
    /\ snapshot = <<>>
    /\ idx = 0
    /\ access_token = "None"
    /\ sent_count = 0
    /\ logs = <<>>
    /\ ui = <<>>
    /\ outcome = [i \in 1..Len(uploaded) |-> "PENDING"]
    /\ sends = <<>>
    /\ rendered = {}
    /\ call = NoCall

Init == InitOf(Tables)

InitReminders == InitOf(ReminderTables)

-----------------------------------------------------------------------------
(* The SEND handler *)

Env == <<uploaded, templates_file, files, dry_run, default_template, call>>

LoopEnv == <<Env, snapshot>>

Msg(kind, text) == [kind |-> kind, text |-> text]

\* the templates file is missing: st.error, st.stop
SendNoTemplates ==
    /\ pc = "idle"
    /\ ~templates_file.exists
    /\ ui' = Append(ui, Msg("error", "templates not found"))
    /\ pc' = "stopped"
    /\ UNCHANGED <<Env, exc, df, snapshot, idx, access_token, sent_count, logs, outcome, sends, rendered>>

\* what load_env and get_token_auth_code can end in, other than a token
CredentialFailures == {"no client id", "login link", "login failed"}

\* live mode, and no token: load_env or get_token_auth_code stops the script
SendNoCredential(why) ==
    /\ pc = "idle"
    /\ templates_file.exists
    /\ ~dry_run
    /\ ui' = Append(ui, Msg(IF why = "login link" THEN "markdown" ELSE "error", why))
    /\ pc' = "stopped"
    /\ UNCHANGED <<Env, exc, df, snapshot, idx, access_token, sent_count, logs, outcome, sends, rendered>>

\* templates loaded, token acquired unless dry-run, report columns added, loop entered
SendStart ==
    /\ pc = "idle"
    /\ templates_file.exists
    /\ access_token' = IF dry_run THEN "None" ELSE "tok"
    /\ sent_count' = 0
    /\ logs' = <<>>
    /\ df' = NewColumn(NewColumn(df, "report_note", S(<<>>)), "last_template_sent", S(<<>>))
    /\ snapshot' = df'
    /\ idx' = 1
    /\ pc' = "loop"
    /\ UNCHANGED <<Env, exc, ui, outcome, sends, rendered>>

templates == templates_file.store

InLoop == pc = "loop" /\ idx \in 1..Len(df)

\* str(row.get("status","")).lower() == "paid"
IsPaid(row) == Lower(PyStr(Get(row, "status", S(<<>>)))) = <<"p","a","i","d">>

Email(row) == PyStr(Get(row, "email", S(<<>>)))

LogLine(kind, row, tkey, pdf_path, cc_list, detail) ==
    [kind |-> kind, email |-> Email(row), tkey |-> tkey, pdf_path |-> pdf_path,
     cc |-> cc_list, detail |-> detail]

\* lines 232-235: the attachment path, the primary address and the cc entries
PdfPath(row) == Strip(PyStr(Get(row, "invoice_pdf", S(<<>>))))
ToAddr(row) == Lower(Strip(Email(row)))
CcList(row) ==
    SelectSeq(ParseRecipients(Get(row, "cc", S(<<>>))),
              LAMBDA r : Lower(r.address) # ToAddr(row))

\* the bookkeeping update with line 251 as rs + 1
BookkeepNoCap(table, i, row, tkey) ==
    LET t1 == SetAt(table, i, "last_sent", S(now_str))
        rs == PyInt(PyOr(Get(row, "reminders_sent", N(0)), N(0)))
    IN  IF ~rs.ok THEN [ok |-> FALSE, table |-> t1]
        ELSE LET t2 == SetAt(t1, i, "reminders_sent", N(rs.n + 1))
                 t3 == SetAt(t2, i, "last_template_sent", S(tkey))
                 t4 == SetAt(t3, i, "report_note", S(ReportNote(tkey)))
                 t5 == NewColumn(t4, FlagCol(tkey), B(FALSE))
             IN  [ok |-> TRUE, table |-> SetAt(t5, i, FlagCol(tkey), B(TRUE))]

\* lines 249-258: [ok, table]; ok = FALSE is the ValueError of int(), raised after
\* last_sent was written
Bookkeep(table, i, row, tkey) ==
    LET t1 == SetAt(table, i, "last_sent", S(now_str))
        rs == PyInt(PyOr(Get(row, "reminders_sent", N(0)), N(0)))
    IN  IF ~rs.ok THEN [ok |-> FALSE, table |-> t1]
        ELSE LET t2 == SetAt(t1, i, "reminders_sent", N(Min(rs.n + 1, 3)))
                 t3 == SetAt(t2, i, "last_template_sent", S(tkey))
                 t4 == SetAt(t3, i, "report_note", S(ReportNote(tkey)))
                 t5 == NewColumn(t4, FlagCol(tkey), B(FALSE))
             IN  [ok |-> TRUE, table |-> SetAt(t5, i, FlagCol(tkey), B(TRUE))]

\* the end of an iteration that reached the bookkeeping update
UpdateRow(tkey) ==
    LET bk == Bookkeep(df, idx, snapshot[idx], tkey)
    IN  /\ df' = bk.table
        /\ IF bk.ok
           THEN idx' = idx + 1 /\ pc' = "loop" /\ exc' = exc
           ELSE idx' = idx /\ pc' = "crashed" /\ exc' = "ValueError"

\* the paid branch without its log line
RowSkipPaidNoLog ==
    /\ InLoop
    /\ IsPaid(snapshot[idx])
    /\ outcome' = [outcome EXCEPT ![idx] = "SKIPPED"]
    /\ idx' = idx + 1
    /\ UNCHANGED <<LoopEnv, pc, exc, df, access_token, sent_count, logs, ui, sends, rendered>>

\* the paid branch stamping last_sent before it continues
RowSkipPaidStamp ==
    /\ InLoop
    /\ IsPaid(snapshot[idx])
    /\ logs' = Append(logs, LogLine("SKIP Paid", snapshot[idx], <<>>, <<>>, <<>>, ""))
    /\ outcome' = [outcome EXCEPT ![idx] = "SKIPPED"]
    /\ df' = SetAt(df, idx, "last_sent", S(now_str))
    /\ idx' = idx + 1
    /\ UNCHANGED <<LoopEnv, pc, exc, access_token, sent_count, ui, sends, rendered>>

\* lines 221-223
RowSkipPaid ==
    /\ InLoop
    /\ IsPaid(snapshot[idx])
    /\ logs' = Append(logs, LogLine("SKIP Paid", snapshot[idx], <<>>, <<>>, <<>>, ""))
    /\ outcome' = [outcome EXCEPT ![idx] = "SKIPPED"]
    /\ idx' = idx + 1
    /\ UNCHANGED <<LoopEnv, pc, exc, df, access_token, sent_count, ui, sends, rendered>>

\* lines 225-229
RowTemplateMissing ==
    /\ InLoop
    /\ ~IsPaid(snapshot[idx])
    /\ LET t == ChooseTemplate(snapshot[idx], S(default_template))
       IN  /\ t.ok
           /\ t.key \notin DOMAIN templates
           /\ logs' = Append(logs, LogLine("ERROR template not found", snapshot[idx], t.key,
                                           <<>>, <<>>, ""))
    /\ outcome' = [outcome EXCEPT ![idx] = "TEMPLATE_MISSING"]
    /\ idx' = idx + 1
    /\ UNCHANGED <<LoopEnv, pc, exc, df, access_token, sent_count, ui, sends, rendered>>

\* lines 225 and 231: an exception outside the try block ends the script
RowRaise ==
    /\ InLoop
    /\ ~IsPaid(snapshot[idx])
    /\ LET t == ChooseTemplate(snapshot[idx], S(default_template))
       IN  \/ /\ ~t.ok
              /\ exc' = "ValueError"
              /\ rendered' = rendered
           \/ /\ t.ok
              /\ t.key \in DOMAIN templates
              /\ ~FormatTemplate(templates[t.key], snapshot[idx]).ok
              /\ exc' = "KeyError"
              /\ rendered' = rendered \cup {idx}
    /\ pc' = "crashed"
    /\ UNCHANGED <<LoopEnv, df, idx, access_token, sent_count, logs, ui, outcome, sends>>

\* lines 231-238 and 249-258
RowDryRun ==
    /\ InLoop
    /\ ~IsPaid(snapshot[idx])
    /\ dry_run
    /\ LET t == ChooseTemplate(snapshot[idx], S(default_template))
       IN  /\ t.ok
           /\ t.key \in DOMAIN templates
           /\ FormatTemplate(templates[t.key], snapshot[idx]).ok
           /\ logs' = Append(logs, LogLine("[DRY]", snapshot[idx], t.key, PdfPath(snapshot[idx]),
                                           CcList(snapshot[idx]), ""))
           /\ UpdateRow(t.key)
    /\ rendered' = rendered \cup {idx}
    /\ outcome' = [outcome EXCEPT ![idx] = "DRY_LOGGED"]
    /\ UNCHANGED <<LoopEnv, access_token, sent_count, ui, sends>>

\* the live branch without the continue of line 247: a failed send is logged and
\* the bookkeeping update follows
RowSendNoContinue(status) ==
    /\ InLoop
    /\ ~IsPaid(snapshot[idx])
    /\ ~dry_run
    /\ LET row == snapshot[idx]
           t == ChooseTemplate(row, S(default_template))
       IN  /\ t.ok
           /\ t.key \in DOMAIN templates
           /\ FormatTemplate(templates[t.key], row).ok
           /\ LET f == FormatTemplate(templates[t.key], row)
                  payload == BuildGraphMessage(ToAddr(row), f.subject, f.body_html,
                                               PdfPath(row), CcList(row))
              IN  /\ sends' = Append(sends, [row |-> idx, token |-> access_token,
                                             payload |-> payload, response |-> status])
                  /\ IF SendMailGraph(status)
                     THEN /\ sent_count' = sent_count + 1
                          /\ logs' = Append(logs, LogLine("OK", row, t.key, <<>>, <<>>, ""))
                          /\ outcome' = [outcome EXCEPT ![idx] = "SENT"]
                     ELSE /\ logs' = Append(logs, LogLine("ERROR", row, <<>>, <<>>, <<>>,
                                                          SendError(status)))
                          /\ outcome' = [outcome EXCEPT ![idx] = "SEND_FAILED"]
                          /\ sent_count' = sent_count
                  /\ UpdateRow(t.key)
    /\ rendered' = rendered \cup {idx}
    /\ UNCHANGED <<LoopEnv, access_token, ui>>

\* lines 231-235 and 239-258: the mail interface answers with status
RowSend(status) ==
    /\ InLoop
    /\ ~IsPaid(snapshot[idx])
    /\ ~dry_run
    /\ LET row == snapshot[idx]
           t == ChooseTemplate(row, S(default_template))
       IN  /\ t.ok
           /\ t.key \in DOMAIN templates
           /\ FormatTemplate(templates[t.key], row).ok
           /\ LET f == FormatTemplate(templates[t.key], row)
                  payload == BuildGraphMessage(ToAddr(row), f.subject, f.body_html,
                                               PdfPath(row), CcList(row))
              IN  /\ sends' = Append(sends, [row |-> idx, token |-> access_token,
                                             payload |-> payload, response |-> status])
                  /\ IF SendMailGraph(status)
                     THEN /\ sent_count' = sent_count + 1
                          /\ logs' = Append(logs, LogLine("OK", row, t.key, <<>>, <<>>, ""))
                          /\ outcome' = [outcome EXCEPT ![idx] = "SENT"]
                          /\ UpdateRow(t.key)
                     ELSE /\ logs' = Append(logs, LogLine("ERROR", row, <<>>, <<>>, <<>>,
                                                          SendError(status)))
                          /\ outcome' = [outcome EXCEPT ![idx] = "SEND_FAILED"]
                          /\ idx' = idx + 1
                          /\ UNCHANGED <<pc, exc, df, sent_count>>
    /\ rendered' = rendered \cup {idx}
    /\ UNCHANGED <<LoopEnv, access_token, ui>>

\* lines 260-267: the loop is over
Finish ==
    /\ pc = "loop"
    /\ idx > Len(df)
    /\ ui' = Append(ui, Msg("success", "done"))
    /\ pc' = "done"
    /\ UNCHANGED <<Env, exc, df, snapshot, idx, access_token, sent_count, logs, outcome, sends, rendered>>

Next ==
    \/ SendNoTemplates
    \/ \E why \in CredentialFailures : SendNoCredential(why)
    \/ SendStart
    \/ RowSkipPaid
    \/ RowTemplateMissing
    \/ RowRaise
    \/ RowDryRun
    \/ \E status \in Responses : RowSend(status)
    \/ Finish

Spec == Init /\ [][Next]_vars

\* the same program on the tables of ReminderTables
SpecReminders == InitReminders /\ [][Next]_vars

-----------------------------------------------------------------------------
(* Direct calls of choose_template and build_graph_message *)

MaxCalls == 2

Idle ==
    /\ uploaded = <<>>
    /\ templates_file = [exists |-> TRUE, store |-> StoreFull]
    /\ files = {PdfThere}
    /\ dry_run = FALSE
    /\ default_template = First
    /\ pc = "call"
    /\ exc = "none"
    /\ df = <<>>
    /\ snapshot = <<>>
    /\ idx = 0
    /\ access_token = "None"
    /\ sent_count = 0
    /\ logs = <<>>
    /\ ui = <<>>
    /\ outcome = <<>>
    /\ sends = <<>>
    /\ rendered = {}

NotCall == <<uploaded, templates_file, files, dry_run, default_template, pc, exc, df,
             snapshot, idx, access_token, sent_count, logs, ui, outcome, sends, rendered>>

ChoiceCells == {Absent, NaN, S(<<>>), S(First), S(<<" ","S","e","c","o","n","d"," ">>),
                S(<<"F","I","N","A","L">>), S(<<"l","a","s","t">>)}
DefaultCells == {None, S(<<>>), S(First), S(Second), S(Final), S(<<"F","i","r","s","t">>)}
ReminderCells == {Absent, NaN, S(<<>>), S(Str1), S(<<" ","2">>)} \cup {N(i) : i \in -1..MaxRS}

InitChoose ==
    /\ Idle
    /\ \E tc \in ChoiceCells, d \in DefaultCells, rs \in ReminderCells :
          call = [fn |-> "choose_template",
                  row |-> [template_choice |-> tc, reminders_sent |-> rs],
                  default_template |-> d,
                  res |-> <<>>]

\* tkey = choose_template(row, default_template)
ChooseCall ==
    /\ call.fn = "choose_template"
    /\ Len(call.res) < MaxCalls
    /\ call' = [call EXCEPT !.res = Append(@, ChooseTemplate(call.row, call.default_template))]
    /\ UNCHANGED NotCall

SpecChoose == InitChoose /\ [][ChooseCall]_vars

RawAddrs == {<<"a">>, <<"A">>, <<" ","a"," ">>, <<"b">>, <<"B"," ">>, <<>>}

CcLists == UNION {[1..len -> {[address |-> a] : a \in RawAddrs}] : len \in 0..MaxCc}

InitBuild ==
    /\ Idle
    /\ \E to \in RawAddrs, cc \in CcLists, path \in {<<>>, PdfThere, PdfGone} :
          call = [fn |-> "build_graph_message", to_addr |-> to, cc_list |-> cc,
                  attachment_path |-> path, res |-> <<>>]

\* payload = build_graph_message(to_addr, subject, body_html, attachment_path, cc_list)
BuildCall ==
    /\ call.fn = "build_graph_message"
    /\ Len(call.res) < 1
    /\ call' = [call EXCEPT !.res = <<BuildGraphMessage(call.to_addr, Str1, Str1,
                                                      call.attachment_path, call.cc_list)>>]
    /\ UNCHANGED NotCall

SpecBuild == InitBuild /\ [][BuildCall]_vars

-----------------------------------------------------------------------------
(* Properties *)

Rows == 1..Len(outcome)

\* the bookkeeping cells of a row
Book(row) == [c \in BookCols |-> row[c]]

\* row i was taken up by the loop: the loop is past it, or ended on it
Handled(i) ==
    \/ pc \in {"loop", "done"} /\ idx > i
    \/ pc = "crashed" /\ idx >= i

\* the log line each outcome writes
KindOf(o) ==
    CASE o = "SKIPPED" -> "SKIP Paid"
      [] o = "TEMPLATE_MISSING" -> "ERROR template not found"
      [] o = "DRY_LOGGED" -> "[DRY]"
      [] o = "SENT" -> "OK"
      [] o = "SEND_FAILED" -> "ERROR"
      [] OTHER -> "no line"

\* this step makes a send for the row the loop is at, and the send fails
SendFailsNow ==
    /\ InLoop
    /\ ~dry_run
    /\ Len(sends') = Len(sends) + 1
    /\ sends'[Len(sends')].row = idx
    /\ sends'[Len(sends')].response \notin {200, 202}

C2_RenderErrorAbortsRowOnly ==
    [][(/\ InLoop
        /\ ~IsPaid(snapshot[idx])
        /\ ChooseTemplate(snapshot[idx], S(default_template)).ok
        /\ ChooseTemplate(snapshot[idx], S(default_template)).key \in DOMAIN templates
        /\ ~FormatTemplate(templates[ChooseTemplate(snapshot[idx], S(default_template)).key],
                           snapshot[idx]).ok)
       => (pc' = "loop" /\ idx' = idx + 1)]_vars

\* the value the documentation gives a reminders_sent cell: 0 unless it is a number
IsNumber(v) == v.t # "absent" /\ PyInt(v).ok

\* C3: a row whose reminders_sent is missing, blank/NaN or not a number and that is
\* sent or dry-logged ends with reminders_sent = 1, and the read does not raise.
C3_BlankReminderReadAsZero ==
    \A i \in Rows :
        (outcome[i] \in {"SENT", "DRY_LOGGED"} /\ ~IsNumber(uploaded[i].reminders_sent))
        => (df[i].reminders_sent = N(1) /\ ~(pc = "crashed" /\ idx = i))

\* C4: every bookkeeping update of a row whose reminders_sent is a non-negative
\* integer n, whatever n (also above 3), leaves min(n + 1, 3), which is at most 3.
C4_ReminderCap ==
    [][\A i \in 1..Len(df) :
          (/\ outcome[i] = "PENDING"
           /\ outcome'[i] \in {"SENT", "DRY_LOGGED"}
           /\ df[i].reminders_sent.t = "int"
           /\ df[i].reminders_sent.n >= 0)
          => (/\ df'[i].reminders_sent = N(Min(df[i].reminders_sent.n + 1, 3))
              /\ df'[i].reminders_sent.n <= 3)]_vars

\* a row uploaded with a count above 3 was updated, and holds 3
C4_Witness ==
    \E i \in Rows :
        /\ uploaded[i].reminders_sent = N(MaxRS)
        /\ MaxRS > 3
        /\ outcome[i] \in {"SENT", "DRY_LOGGED"}
        /\ df[i].reminders_sent = N(3)

\* C5: every outcome appends exactly one log line with the row's email, in row
\* order: the rows with an outcome are the first k rows, the log has k lines, and
\* line i is the line of row i's outcome with row i's email.
C5_OneLogLinePerRow ==
    /\ {i \in Rows : outcome[i] # "PENDING"} = 1..Len(logs)
    /\ \A i \in 1..Len(logs) :
          /\ logs[i].email = Email(uploaded[i])
          /\ logs[i].kind = KindOf(outcome[i])

\* a finished run of two or more rows whose first rows ended in different outcomes
C5_Witness ==
    /\ pc = "done"
    /\ Len(logs) >= 2
    /\ outcome[1] = "SEND_FAILED"
    /\ outcome[2] = "SKIPPED"
    /\ logs[1].email # logs[2].email

\* C6: in dry-run mode no credential is acquired, no send is made and sent_count
\* stays 0; every non-paid row whose template exists ends DRY_LOGGED with a
\* "[DRY]" line and the bookkeeping of a successful send.
C6_DryRunLogsAndUpdates ==
    dry_run =>
        /\ access_token = "None"
        /\ sends = <<>>
        /\ sent_count = 0
        /\ \A i \in Rows :
              LET t == ChooseTemplate(uploaded[i], S(default_template))
              IN  (Handled(i) /\ ~IsPaid(uploaded[i]) /\ t.key \in DOMAIN templates)
                  => /\ outcome[i] = "DRY_LOGGED"
                     /\ logs[i].kind = "[DRY]"
                     /\ df[i].last_sent = S(now_str)
                     /\ df[i].reminders_sent.t = "int"
                     /\ df[i].reminders_sent.n \in 1..3
                     /\ df[i].last_template_sent = S(t.key)
                     /\ df[i].report_note = S(ReportNote(t.key))
                     /\ df[i][FlagCol(t.key)] = B(TRUE)

\* the rows that left the loop before the send step
LeftEarly(i) == outcome[i] \in {"SKIPPED", "TEMPLATE_MISSING"}

\* C7 as stated: after the run, a row that was skipped or had no template holds
\* the bookkeeping values it had before the run; nothing was rendered or sent for it.
C7_EarlyExitKeepsValues ==
    pc = "done" =>
        \A i \in Rows :
            LeftEarly(i) =>
                /\ Book(df[i]) = Book(uploaded[i])
                /\ i \notin rendered
                /\ \A k \in 1..Len(sends) : sends[k].row # i

\* what a cell holds when its column is added to the table for another row
ColumnDefault(col) ==
    CASE col \in {"report_note", "last_template_sent"} -> S(<<>>)
      [] col \in {"last_sent", "reminders_sent"} -> NaN
      [] OTHER -> B(FALSE)

\* C7 (amended): a row that was skipped or had no template is never written: each
\* bookkeeping cell of a column the uploaded table had keeps its value, and a cell
\* of a column the table lacked holds nothing or the default the column was added
\* with; nothing is rendered or sent for the row, and the loop went on past it.
C7_EarlyExitNeverWritten ==
    \A i \in Rows :
        LeftEarly(i) =>
            /\ \A c \in BookCols :
                  IF uploaded[i][c].t = "absent"
                  THEN df[i][c] \in {Absent, ColumnDefault(c)}
                  ELSE df[i][c] = uploaded[i][c]
            /\ i \notin rendered
            /\ \A k \in 1..Len(sends) : sends[k].row # i
            /\ idx > i
            /\ pc \in {"loop", "done", "crashed"}

\* a skipped row of a table without bookkeeping columns, after another row's
\* update added last_sent and a flag column
C7_Witness ==
    /\ pc = "done"
    /\ \E i \in Rows, j \in Rows :
          /\ LeftEarly(i)
          /\ outcome[j] = "SENT"
          /\ uploaded[i].last_sent = Absent
          /\ df[i].last_sent = NaN
          /\ df[i].report_note = S(<<>>)
          /\ \E c \in FlagCols : df[i][c] = B(FALSE)

\* the key the documented order gives: the normalised template_choice, else the
\* default, else the band of reminders_sent read as 0 when it is no number
DocumentedKey(row, d) ==
    LET tc == IF row.template_choice.t = "str"
              THEN Lower(Strip(row.template_choice.s)) ELSE <<>>
        rs == IF IsNumber(row.reminders_sent) THEN PyInt(row.reminders_sent).n ELSE 0
    IN  IF tc \in Keys THEN tc
        ELSE IF d.t = "str" /\ d.s \in Keys THEN d.s
        ELSE IF rs <= 0 THEN First
        ELSE IF rs = 1 THEN Second
        ELSE Final

\* C8: choose_template returns, for every template_choice, default_template and
\* reminders_sent, one of first/second/final by first-match order, the same on
\* every call.
C8_ChooseTemplateTotal ==
    call.fn = "choose_template" =>
        \A k \in 1..Len(call.res) :
            /\ call.res[k].ok
            /\ call.res[k].key \in Keys
            /\ call.res[k].key = DocumentedKey(call.row, call.default_template)
            /\ call.res[k] = call.res[1]

\* position of the first entry of cc whose normalised address is a
FirstSeen(cc, a) == CHOOSE i \in 1..Len(cc) :
    /\ Lower(Strip(cc[i].address)) = a
    /\ \A j \in 1..(i - 1) : Lower(Strip(cc[j].address)) # a

\* C9: the payload has one toRecipients entry, the trimmed lower-cased primary
\* address; ccRecipients holds no address equal to it case-insensitively, none
\* twice, and the other addresses of the cc list in first-seen order.
C9_CcExcludesPrimary ==
    (call.fn = "build_graph_message" /\ Len(call.res) = 1) =>
        LET p == call.res[1]
            to == Lower(Strip(call.to_addr))
            cc == p.ccRecipients
            given == {Lower(Strip(call.cc_list[i].address)) : i \in 1..Len(call.cc_list)}
        IN  /\ p.toRecipients = <<[address |-> to]>>
            /\ \A i \in 1..Len(cc) : Lower(Strip(cc[i].address)) # to
            /\ \A i \in 1..Len(cc), j \in 1..Len(cc) :
                  i # j => Lower(cc[i].address) # Lower(cc[j].address)
            /\ {cc[i].address : i \in 1..Len(cc)} = given \ {to}
            /\ \A i \in 1..Len(cc), j \in 1..Len(cc) :
                  i < j => FirstSeen(call.cc_list, cc[i].address)
                           < FirstSeen(call.cc_list, cc[j].address)

\* a cc list that names the primary address in another case and one address twice
C9_Witness ==
    /\ call.fn = "build_graph_message"
    /\ call.to_addr = <<" ","a"," ">>
    /\ call.cc_list = <<[address |-> <<"B"," ">>], [address |-> <<"A">>],
                        [address |-> <<"b">>]>>
    /\ Len(call.res) = 1
    /\ call.res[1].toRecipients = <<[address |-> <<"a">>]>>
    /\ call.res[1].ccRecipients = <<[address |-> <<"b">>]>>

\* C10: in live mode a row whose attachment path names no file is still sent,
\* without an attachment block, and a warning is shown.
C10_MissingAttachmentWarned ==
    \A i \in Rows :
        LET path == PdfPath(uploaded[i])
        IN  (/\ ~dry_run
             /\ outcome[i] \in {"SENT", "SEND_FAILED"}
             /\ Len(path) > 0
             /\ path \notin files)
            => /\ \E k \in 1..Len(sends) :
                     sends[k].row = i /\ sends[k].payload.attachments = <<>>
               /\ \E m \in 1..Len(ui) : ui[m].kind = "warning"

====
